---- MODULE Spec2Model ----
(***************************************************************************)
(* Model of src/hid-trackball-interface.c: the input-mode classifier and   *)
(* actuator driven by layer-state-changed events, and the automouse layer  *)
(* controller driven by HID indicator events and two delayable work items. *)
(***************************************************************************)
EXTENDS Integers, Sequences, FiniteSets, TLC

\* ------------------------------------------------------------------ bounds
\* Layers of the keymap are 0..MaxLayer.
MaxLayer == 2
\* scroll_layers / snipe_layers hold 1..MaxListLen layer ids.
MaxListLen == 2
\* automouse_layer_timeout_ms is a multiple of the time step, up to this many.
MaxTimeoutTicks == 1

\* --------------------------------------------------------------- constants
LED_SLCK == 4
WAKE_DELAY_MS == 50
\* value of a k_work_delayable that is neither scheduled nor queued
NOT_PENDING == -1

MOVE == "MOVE"
SCROLL == "SCROLL"
SNIPE == "SNIPE"
interface_input_mode == {MOVE, SCROLL, SNIPE}

ZMK_ACTIVITY_ACTIVE == "ACTIVE"
ZMK_ACTIVITY_IDLE == "IDLE"
ZMK_ACTIVITY_SLEEP == "SLEEP"
ActivityStates == {ZMK_ACTIVITY_ACTIVE, ZMK_ACTIVITY_IDLE, ZMK_ACTIVITY_SLEEP}

Layers == 0..MaxLayer
\* time advances in steps of the wake delay
TickMs == WAKE_DELAY_MS
TimeoutValues == {k * TickMs : k \in 0..MaxTimeoutTicks}
\* indicator bitmasks / report bytes: scroll lock with and without another bit
IndicatorValues == {0, 1, LED_SLCK, LED_SLCK + 1}
\* *len of a SET_REPORT transfer: too short, and report id + one byte
ReportLens == {1, 2}

\* devicetree arrays: sequences of distinct layer ids, length 1..MaxListLen
LayerLists ==
  UNION {{s \in [1..n -> Layers] : \A i, j \in 1..n : i # j => s[i] # s[j]}
         : n \in 1..MaxListLen}

VARIABLES
  config,           \* struct interface_config (immutable)
  data,             \* struct interface_data
  layer_state,      \* keymap: the set of active layers
  activity_state,   \* zmk_activity_get_state()
  scroll_on,        \* peripheral: scroll toggle, flipped by toggle_scroll
  snipe_on,         \* peripheral: snipe DPI toggle, flipped by cycle_dpi
  handler,          \* the entry point that ran in the last step
  arg,              \* its input (indicator byte, layer id), -1 if none
  calls,            \* the external calls the last step made, in order
  since_off,        \* ms the pending deactivation has been counting down
  last_indicator,   \* the scroll-lock bit of the latest indicator event
  vendor_pc         \* vendor_set_report_cb, when it runs in its own context

vars == <<config, data, layer_state, activity_state, scroll_on, snipe_on,
          handler, arg, calls, since_off, last_indicator, vendor_pc>>

\* ------------------------------------------------------- bit arithmetic
RECURSIVE BitAnd(_, _)
BitAnd(a, b) ==
  IF a = 0 \/ b = 0 THEN 0
  ELSE (a % 2) * (b % 2) + 2 * BitAnd(a \div 2, b \div 2)

\* ------------------------------------------------ the world a handler sees
\* The part of the state a handler reads and writes, threaded through the
\* calls it makes; calls starts empty at every entry point.
World ==
  [data |-> data, layers |-> layer_state, scroll |-> scroll_on,
   snipe |-> snipe_on, calls |-> <<>>]

Call(w, name) == [w EXCEPT !.calls = Append(@, name)]

\* ------------------------------------------------------ k_work_delayable
k_work_delayable_is_pending(dwork) == dwork # NOT_PENDING
\* k_work_schedule leaves an already pending work item alone
k_work_schedule(dwork, delay) == IF dwork # NOT_PENDING THEN dwork ELSE delay
\* mutant: a pending countdown is not restarted (k_work_schedule's behaviour)
k_work_reschedule_keeps_deadline(dwork, delay) ==
  IF dwork # NOT_PENDING THEN dwork ELSE delay

\* k_work_reschedule replaces the deadline
k_work_reschedule(dwork, delay) == delay
k_work_cancel_delayable(dwork) == NOT_PENDING

\* ------------------------------------------------------------- commands
toggle_scroll(w) == Call([w EXCEPT !.scroll = ~@], "toggle_scroll")

cycle_dpi(w) == Call([w EXCEPT !.snipe = ~@], "cycle_dpi")

\* ------------------------------------------------------------ classifier
zmk_keymap_layer_active(w, layer) == layer \in w.layers

\* mutant: only the first entry of the list is looked at
scan_layers_first_only(w, list, i) ==
  i <= Len(list) /\ zmk_keymap_layer_active(w, list[i])

RECURSIVE scan_layers(_, _, _)
scan_layers(w, list, i) ==
  IF i > Len(list) THEN FALSE
  ELSE IF zmk_keymap_layer_active(w, list[i]) THEN TRUE
  ELSE scan_layers(w, list, i + 1)

\* mutant: the snipe list is scanned before the scroll list
get_input_mode_snipe_first(w) ==
  IF scan_layers(w, config.snipe_layers, 1) THEN SNIPE
  ELSE IF scan_layers(w, config.scroll_layers, 1) THEN SCROLL
  ELSE MOVE

get_input_mode_for_current_layer(w) ==
  IF scan_layers(w, config.scroll_layers, 1) THEN SCROLL
  ELSE IF scan_layers(w, config.snipe_layers, 1) THEN SNIPE
  ELSE MOVE

\* -------------------------------------------------------------- actuator
\* mutant: the two commands of the Scroll <-> Snipe transitions swapped
mode_switch_swapped_order(w, input_mode) ==
  LET curr == w.data.curr_mode IN
  CASE input_mode = MOVE ->
         IF curr = SCROLL THEN toggle_scroll(w)
         ELSE IF curr = SNIPE THEN cycle_dpi(w)
         ELSE w
    [] input_mode = SCROLL ->
         IF curr = MOVE THEN toggle_scroll(w)
         ELSE IF curr = SNIPE THEN cycle_dpi(toggle_scroll(w))
         ELSE w
    [] input_mode = SNIPE ->
         IF curr = MOVE THEN cycle_dpi(w)
         ELSE IF curr = SCROLL THEN toggle_scroll(cycle_dpi(w))
         ELSE w

\* mutant: Scroll -> Snipe emits cycle_dpi alone
mode_switch_one_command(w, input_mode) ==
  LET curr == w.data.curr_mode IN
  CASE input_mode = MOVE ->
         IF curr = SCROLL THEN toggle_scroll(w)
         ELSE IF curr = SNIPE THEN cycle_dpi(w)
         ELSE w
    [] input_mode = SCROLL ->
         IF curr = MOVE THEN toggle_scroll(w)
         ELSE IF curr = SNIPE THEN toggle_scroll(cycle_dpi(w))
         ELSE w
    [] input_mode = SNIPE ->
         IF curr = MOVE THEN cycle_dpi(w)
         ELSE IF curr = SCROLL THEN cycle_dpi(w)
         ELSE w

\* mutant: Snipe -> Move emits toggle_scroll
mode_switch_wrong_command(w, input_mode) ==
  LET curr == w.data.curr_mode IN
  CASE input_mode = MOVE ->
         IF curr = SCROLL THEN toggle_scroll(w)
         ELSE IF curr = SNIPE THEN toggle_scroll(w)
         ELSE w
    [] input_mode = SCROLL ->
         IF curr = MOVE THEN toggle_scroll(w)
         ELSE IF curr = SNIPE THEN toggle_scroll(cycle_dpi(w))
         ELSE w
    [] input_mode = SNIPE ->
         IF curr = MOVE THEN cycle_dpi(w)
         ELSE IF curr = SCROLL THEN cycle_dpi(toggle_scroll(w))
         ELSE w

\* the switch of layer_state_listener_cb: commands for curr_mode -> input_mode
mode_switch(w, input_mode) ==
  LET curr == w.data.curr_mode IN
  CASE input_mode = MOVE ->
         IF curr = SCROLL THEN toggle_scroll(w)
         ELSE IF curr = SNIPE THEN cycle_dpi(w)
         ELSE w
    [] input_mode = SCROLL ->
         IF curr = MOVE THEN toggle_scroll(w)
         ELSE IF curr = SNIPE THEN toggle_scroll(cycle_dpi(w))
         ELSE w
    [] input_mode = SNIPE ->
         IF curr = MOVE THEN cycle_dpi(w)
         ELSE IF curr = SCROLL THEN cycle_dpi(toggle_scroll(w))
         ELSE w

\* mutant: no comparison with curr_mode, and a plain else in each case
layer_state_listener_cb_unguarded(w) ==
  LET input_mode == get_input_mode_for_current_layer(w)
      curr == w.data.curr_mode
      w1 == CASE input_mode = MOVE ->
                   IF curr = SCROLL THEN toggle_scroll(w) ELSE cycle_dpi(w)
              [] input_mode = SCROLL ->
                   IF curr = MOVE THEN toggle_scroll(w)
                   ELSE toggle_scroll(cycle_dpi(w))
              [] input_mode = SNIPE ->
                   IF curr = MOVE THEN cycle_dpi(w)
                   ELSE cycle_dpi(toggle_scroll(w)) IN
  [w1 EXCEPT !.data.curr_mode = input_mode]

layer_state_listener_cb(w) ==
  LET input_mode == get_input_mode_for_current_layer(w) IN
  IF input_mode # w.data.curr_mode
  THEN [mode_switch(w, input_mode) EXCEPT !.data.curr_mode = input_mode]
  ELSE w

\* ---------------------------------------------------------------- keymap
\* The keymap raises layer_state_changed, synchronously, when a layer's
\* state actually changes; this component subscribes to it.
zmk_keymap_layer_activate(w, layer) ==
  LET w1 == Call(w, "zmk_keymap_layer_activate") IN
  IF layer \in w.layers THEN w1
  ELSE layer_state_listener_cb([w1 EXCEPT !.layers = @ \cup {layer}])

zmk_keymap_layer_deactivate(w, layer) ==
  LET w1 == Call(w, "zmk_keymap_layer_deactivate") IN
  IF layer \notin w.layers THEN w1
  ELSE layer_state_listener_cb([w1 EXCEPT !.layers = @ \ {layer}])

\* ------------------------------------------------------------- automouse
activate_automouse_layer_work(w) ==
  LET w1 == zmk_keymap_layer_activate(w, config.automouse_layer) IN
  [w1 EXCEPT !.data.automouse_enabled = TRUE]

\* mutant: the activity state is not consulted, activation is always delayed
activate_automouse_layer_always_delayed(w) ==
  LET w1 == Call(w, "input_report_rel")
      w2 == Call(w1, "k_work_schedule") IN
  [w2 EXCEPT !.data.activate_automouse_layer_delayed =
                k_work_schedule(@, WAKE_DELAY_MS)]

\* mutant: the idle path schedules the activation without the wake event
activate_automouse_layer_no_wake(w) ==
  IF activity_state # ZMK_ACTIVITY_ACTIVE
  THEN [Call(w, "k_work_schedule")
          EXCEPT !.data.activate_automouse_layer_delayed =
                   k_work_schedule(@, WAKE_DELAY_MS)]
  ELSE LET w1 == zmk_keymap_layer_activate(w, config.automouse_layer) IN
       [w1 EXCEPT !.data.automouse_enabled = TRUE]

activate_automouse_layer(w) ==
  IF activity_state # ZMK_ACTIVITY_ACTIVE
  THEN LET w1 == Call(w, "input_report_rel")
           w2 == Call(w1, "k_work_schedule") IN
       [w2 EXCEPT !.data.activate_automouse_layer_delayed =
                     k_work_schedule(@, WAKE_DELAY_MS)]
  ELSE LET w1 == zmk_keymap_layer_activate(w, config.automouse_layer) IN
       [w1 EXCEPT !.data.automouse_enabled = TRUE]

\* mutant: the layer is deactivated but the flag is left set
deactivate_automouse_layer_keeps_flag(w) ==
  IF zmk_keymap_layer_active(w, config.automouse_layer)
  THEN zmk_keymap_layer_deactivate(w, config.automouse_layer)
  ELSE w

\* mutant: the layer is deactivated without asking whether it is active
deactivate_automouse_layer_unconditional(w) ==
  LET w1 == zmk_keymap_layer_deactivate(w, config.automouse_layer) IN
  [w1 EXCEPT !.data.automouse_enabled = FALSE]

deactivate_automouse_layer(w) ==
  LET w1 == IF zmk_keymap_layer_active(w, config.automouse_layer)
            THEN zmk_keymap_layer_deactivate(w, config.automouse_layer)
            ELSE w IN
  [w1 EXCEPT !.data.automouse_enabled = FALSE]

\* mutant: the deactivation is scheduled without looking at automouse_enabled
hid_indicators_listener_cb_off_unguarded(w, indicators) ==
  IF BitAnd(indicators, LED_SLCK) # 0
  THEN IF ~w.data.automouse_enabled
          /\ ~zmk_keymap_layer_active(w, config.automouse_layer)
       THEN activate_automouse_layer(w)
       ELSE IF k_work_delayable_is_pending(
                 w.data.deactivate_automouse_layer_delayed)
       THEN [Call(w, "k_work_cancel_delayable")
               EXCEPT !.data.deactivate_automouse_layer_delayed =
                        k_work_cancel_delayable(@)]
       ELSE w
  ELSE [Call(w, "k_work_reschedule")
          EXCEPT !.data.deactivate_automouse_layer_delayed =
                   k_work_reschedule(@, config.automouse_layer_timeout_ms)]

\* mutant: a pending deactivation is not cancelled
hid_indicators_listener_cb_no_cancel(w, indicators) ==
  IF BitAnd(indicators, LED_SLCK) # 0
  THEN IF ~w.data.automouse_enabled
          /\ ~zmk_keymap_layer_active(w, config.automouse_layer)
       THEN activate_automouse_layer(w)
       ELSE w
  ELSE IF w.data.automouse_enabled /\ BitAnd(indicators, LED_SLCK) = 0
  THEN [Call(w, "k_work_reschedule")
          EXCEPT !.data.deactivate_automouse_layer_delayed =
                   k_work_reschedule(@, config.automouse_layer_timeout_ms)]
  ELSE w

hid_indicators_listener_cb(w, indicators) ==
  IF BitAnd(indicators, LED_SLCK) # 0
  THEN IF ~w.data.automouse_enabled
          /\ ~zmk_keymap_layer_active(w, config.automouse_layer)
       THEN activate_automouse_layer(w)
       ELSE IF k_work_delayable_is_pending(
                 w.data.deactivate_automouse_layer_delayed)
       THEN [Call(w, "k_work_cancel_delayable")
               EXCEPT !.data.deactivate_automouse_layer_delayed =
                        k_work_cancel_delayable(@)]
       ELSE w
  ELSE IF w.data.automouse_enabled /\ BitAnd(indicators, LED_SLCK) = 0
  THEN [Call(w, "k_work_reschedule")
          EXCEPT !.data.deactivate_automouse_layer_delayed =
                   k_work_reschedule(@, config.automouse_layer_timeout_ms)]
  ELSE w

\* mutant: IndicatorOn leaves a pending deactivation in place
vendor_set_report_cb_no_cancel(w, len, report_data) ==
  IF len < 2 THEN w
  ELSE IF BitAnd(report_data, LED_SLCK) # 0
  THEN IF ~w.data.automouse_enabled
          /\ ~zmk_keymap_layer_active(w, config.automouse_layer)
       THEN activate_automouse_layer(w)
       ELSE w
  ELSE IF w.data.automouse_enabled
  THEN [Call(w, "k_work_reschedule")
          EXCEPT !.data.deactivate_automouse_layer_delayed =
                   k_work_reschedule(@, config.automouse_layer_timeout_ms)]
  ELSE w

\* mutant: the deactivation is cancelled without asking whether it is pending
vendor_set_report_cb_no_pending_check(w, len, report_data) ==
  IF len < 2 THEN w
  ELSE IF BitAnd(report_data, LED_SLCK) # 0
  THEN IF ~w.data.automouse_enabled
          /\ ~zmk_keymap_layer_active(w, config.automouse_layer)
       THEN activate_automouse_layer(w)
       ELSE [Call(w, "k_work_cancel_delayable")
               EXCEPT !.data.deactivate_automouse_layer_delayed =
                        k_work_cancel_delayable(@)]
  ELSE IF w.data.automouse_enabled
  THEN [Call(w, "k_work_reschedule")
          EXCEPT !.data.deactivate_automouse_layer_delayed =
                   k_work_reschedule(@, config.automouse_layer_timeout_ms)]
  ELSE w

\* mutant: the deactivation is scheduled without looking at automouse_enabled
vendor_set_report_cb_off_unguarded(w, len, report_data) ==
  IF len < 2 THEN w
  ELSE IF BitAnd(report_data, LED_SLCK) # 0
  THEN IF ~w.data.automouse_enabled
          /\ ~zmk_keymap_layer_active(w, config.automouse_layer)
       THEN activate_automouse_layer(w)
       ELSE IF k_work_delayable_is_pending(
                 w.data.deactivate_automouse_layer_delayed)
       THEN [Call(w, "k_work_cancel_delayable")
               EXCEPT !.data.deactivate_automouse_layer_delayed =
                        k_work_cancel_delayable(@)]
       ELSE w
  ELSE [Call(w, "k_work_reschedule")
          EXCEPT !.data.deactivate_automouse_layer_delayed =
                   k_work_reschedule(@, config.automouse_layer_timeout_ms)]

vendor_set_report_cb(w, len, report_data) ==
  IF len < 2 THEN w
  ELSE IF BitAnd(report_data, LED_SLCK) # 0
  THEN IF ~w.data.automouse_enabled
          /\ ~zmk_keymap_layer_active(w, config.automouse_layer)
       THEN activate_automouse_layer(w)
       ELSE IF k_work_delayable_is_pending(
                 w.data.deactivate_automouse_layer_delayed)
       THEN [Call(w, "k_work_cancel_delayable")
               EXCEPT !.data.deactivate_automouse_layer_delayed =
                        k_work_cancel_delayable(@)]
       ELSE w
  ELSE IF w.data.automouse_enabled
  THEN [Call(w, "k_work_reschedule")
          EXCEPT !.data.deactivate_automouse_layer_delayed =
                   k_work_reschedule(@, config.automouse_layer_timeout_ms)]
  ELSE w

\* ------------------------------------------------------------------ state
\* last_indicator in the specifications that keep no record of it
NOT_OBSERVED == "not observed"

interface_config ==
  [scroll_layers : LayerLists, snipe_layers : LayerLists,
   automouse_layer : Layers, automouse_layer_timeout_ms : TimeoutValues]

\* static struct interface_data data, zero-initialised, after interface_init
interface_init ==
  [curr_mode |-> MOVE, automouse_enabled |-> FALSE,
   activate_automouse_layer_delayed |-> NOT_PENDING,
   deactivate_automouse_layer_delayed |-> NOT_PENDING]

\* the state after construction, whatever the configuration
Start ==
  /\ data = interface_init
  /\ layer_state = {}
  /\ activity_state = ZMK_ACTIVITY_ACTIVE
  /\ scroll_on = FALSE
  /\ snipe_on = FALSE
  /\ handler = "interface_init"
  /\ arg = -1
  /\ calls = <<>>
  /\ since_off = 0
  /\ vendor_pc = "idle"

\* Configurations of the full system: one scroll layer and one snipe layer,
\* any automouse layer (it may be one of them) and any timeout.
Init ==
  /\ config \in {c \in interface_config :
                   Len(c.scroll_layers) = 1 /\ Len(c.snipe_layers) = 1}
  /\ Start
  /\ last_indicator = NOT_OBSERVED

\* Configurations of the classifier and actuator alone: any two layer lists.
InitMode ==
  /\ config \in {c \in interface_config :
                   c.automouse_layer = 0 /\ c.automouse_layer_timeout_ms = 0}
  /\ Start
  /\ last_indicator = NOT_OBSERVED

\* an indicator handler ran with this byte (not a too short report)
IsIndicatorEvent(h, a) ==
  h \in {"hid_indicators_listener_cb", "vendor_set_report_cb"} /\ a >= 0

\* History: how long the pending deactivation has been counting down since
\* the k_work_reschedule that armed it, capped at the timeout; 0 when no
\* deactivation is pending.
SinceOff(w, h) ==
  IF ~k_work_delayable_is_pending(w.data.deactivate_automouse_layer_delayed)
  THEN 0
  ELSE IF \E i \in DOMAIN w.calls : w.calls[i] = "k_work_reschedule" THEN 0
  ELSE IF h = "tick"
  THEN IF since_off + TickMs > config.automouse_layer_timeout_ms
       THEN config.automouse_layer_timeout_ms
       ELSE since_off + TickMs
  ELSE since_off

\* History: the latest indicator event, in the specifications that observe it
LastIndicator(h, a) ==
  IF last_indicator = NOT_OBSERVED \/ ~IsIndicatorEvent(h, a)
  THEN last_indicator
  ELSE IF BitAnd(a, LED_SLCK) # 0 THEN "on" ELSE "off"

\* the state a handler leaves behind
Record(w, h, a) ==
  /\ data' = w.data
  /\ layer_state' = w.layers
  /\ scroll_on' = w.scroll
  /\ snipe_on' = w.snipe
  /\ calls' = w.calls
  /\ handler' = h
  /\ arg' = a
  /\ since_off' = SinceOff(w, h)
  /\ last_indicator' = LastIndicator(h, a)
  /\ UNCHANGED config

\* a handler that runs to completion: nothing of it is left in progress
Commit(w, h, a) ==
  /\ Record(w, h, a)
  /\ UNCHANGED vendor_pc

\* ---------------------------------------------------------------- actions
\* zmk_hid_indicators_changed raised on the event bus
HidIndicatorsChanged ==
  \E indicators \in IndicatorValues :
    /\ Commit(hid_indicators_listener_cb(World, indicators),
              "hid_indicators_listener_cb", indicators)
    /\ UNCHANGED activity_state

\* SET_REPORT on the vendor feature channel
VendorSetReport ==
  \E len \in ReportLens, report_data \in IndicatorValues :
    /\ Commit(vendor_set_report_cb(World, len, report_data),
              "vendor_set_report_cb", IF len < 2 THEN -1 ELSE report_data)
    /\ UNCHANGED activity_state

\* the wake-delay work item expires and its handler runs
ActivateWork ==
  /\ data.activate_automouse_layer_delayed = 0
  /\ Commit(activate_automouse_layer_work(
              [World EXCEPT !.data.activate_automouse_layer_delayed =
                              NOT_PENDING]),
            "activate_automouse_layer_work", -1)
  /\ UNCHANGED activity_state

\* the deactivation work item expires and its handler runs
DeactivateWork ==
  /\ data.deactivate_automouse_layer_delayed = 0
  /\ Commit(deactivate_automouse_layer(
              [World EXCEPT !.data.deactivate_automouse_layer_delayed =
                              NOT_PENDING]),
            "deactivate_automouse_layer", -1)
  /\ UNCHANGED activity_state

\* another part of the keymap (a key press) activates a layer
KeymapLayerActivate ==
  \E layer \in Layers \ layer_state :
    /\ Commit(layer_state_listener_cb([World EXCEPT !.layers = @ \cup {layer}]),
              "layer_state_listener_cb", layer)
    /\ UNCHANGED activity_state

\* another part of the keymap deactivates a layer
KeymapLayerDeactivate ==
  \E layer \in layer_state :
    /\ Commit(layer_state_listener_cb([World EXCEPT !.layers = @ \ {layer}]),
              "layer_state_listener_cb", layer)
    /\ UNCHANGED activity_state

\* the activity subsystem changes the host state (idle timeout, wake)
ActivityChange ==
  \E s \in ActivityStates \ {activity_state} :
    /\ activity_state' = s
    /\ Commit(World, "activity", -1)

TimerTick(t) == IF t > 0 THEN t - TickMs ELSE t

\* time passes: every scheduled work item comes TickMs closer
Tick ==
  /\ \/ data.activate_automouse_layer_delayed > 0
     \/ data.deactivate_automouse_layer_delayed > 0
  /\ Commit([World EXCEPT
               !.data.activate_automouse_layer_delayed = TimerTick(@),
               !.data.deactivate_automouse_layer_delayed = TimerTick(@)],
            "tick", -1)
  /\ UNCHANGED activity_state

Next ==
  \/ HidIndicatorsChanged
  \/ VendorSetReport
  \/ ActivateWork
  \/ DeactivateWork
  \/ KeymapLayerActivate
  \/ KeymapLayerDeactivate
  \/ ActivityChange
  \/ Tick

Spec == Init /\ [][Next]_vars

\* Every InterfaceState, also those no run reaches: any flag and any
\* state of the two work items, with any layers active and any host state.
work_item_states == {NOT_PENDING} \cup {k * TickMs : k \in 0..MaxTimeoutTicks}

InitAny ==
  /\ config \in {c \in interface_config :
                   Len(c.scroll_layers) = 1 /\ Len(c.snipe_layers) = 1}
  /\ layer_state \in SUBSET Layers
  /\ activity_state \in ActivityStates
  /\ \E enabled \in BOOLEAN, act, deact \in work_item_states :
       data = [curr_mode |-> get_input_mode_for_current_layer(
                               [layers |-> layer_state]),
               automouse_enabled |-> enabled,
               activate_automouse_layer_delayed |-> act,
               deactivate_automouse_layer_delayed |-> deact]
  /\ scroll_on = (data.curr_mode = SCROLL)
  /\ snipe_on = (data.curr_mode = SNIPE)
  /\ handler = "interface_init"
  /\ arg = -1
  /\ calls = <<>>
  /\ since_off = 0
  /\ vendor_pc = "idle"
  /\ last_indicator = NOT_OBSERVED

\* one indicator event, from either transport, in any such state
NextAny ==
  \/ HidIndicatorsChanged
  \/ VendorSetReport

SpecAny == InitAny /\ [][NextAny]_vars

\* The controller as the only party that toggles the automouse layer, with
\* the most recent indicator event on record.
NO_INDICATOR_YET == "none"

InitOwn ==
  /\ config \in {c \in interface_config :
                   Len(c.scroll_layers) = 1 /\ Len(c.snipe_layers) = 1}
  /\ Start
  /\ last_indicator = NO_INDICATOR_YET

\* another part of the keymap activates a layer other than the automouse layer
KeymapOtherLayerActivate ==
  \E layer \in (Layers \ layer_state) \ {config.automouse_layer} :
    /\ Commit(layer_state_listener_cb([World EXCEPT !.layers = @ \cup {layer}]),
              "layer_state_listener_cb", layer)
    /\ UNCHANGED activity_state

\* another part of the keymap deactivates a layer other than the automouse layer
KeymapOtherLayerDeactivate ==
  \E layer \in layer_state \ {config.automouse_layer} :
    /\ Commit(layer_state_listener_cb([World EXCEPT !.layers = @ \ {layer}]),
              "layer_state_listener_cb", layer)
    /\ UNCHANGED activity_state

NextOwn ==
  \/ HidIndicatorsChanged
  \/ VendorSetReport
  \/ ActivateWork
  \/ DeactivateWork
  \/ KeymapOtherLayerActivate
  \/ KeymapOtherLayerDeactivate
  \/ ActivityChange
  \/ Tick

SpecOwn == InitOwn /\ [][NextOwn]_vars

\* The feature-report handler in a context of its own (the transport's
\* thread), every other callback on the system work queue: its tests of
\* data.automouse_enabled, the layer state and the work item are one step,
\* the call they select is a later step, and no lock is held in between.
vendor_set_report_read(w, len, report_data) ==
  IF len < 2 THEN "idle"
  ELSE IF BitAnd(report_data, LED_SLCK) # 0
  THEN IF ~w.data.automouse_enabled
          /\ ~zmk_keymap_layer_active(w, config.automouse_layer)
       THEN "activate_automouse_layer"
       ELSE IF k_work_delayable_is_pending(
                 w.data.deactivate_automouse_layer_delayed)
       THEN "k_work_cancel_delayable"
       ELSE "idle"
  ELSE IF w.data.automouse_enabled
  THEN "k_work_reschedule"
  ELSE "idle"

vendor_set_report_call(w, pc) ==
  IF pc = "activate_automouse_layer" THEN activate_automouse_layer(w)
  ELSE IF pc = "k_work_cancel_delayable"
  THEN [Call(w, "k_work_cancel_delayable")
          EXCEPT !.data.deactivate_automouse_layer_delayed =
                   k_work_cancel_delayable(@)]
  ELSE IF pc = "k_work_reschedule"
  THEN [Call(w, "k_work_reschedule")
          EXCEPT !.data.deactivate_automouse_layer_delayed =
                   k_work_reschedule(@, config.automouse_layer_timeout_ms)]
  ELSE w

\* SET_REPORT arrives: the handler evaluates its conditions
VendorRead ==
  /\ vendor_pc = "idle"
  /\ \E len \in ReportLens, report_data \in IndicatorValues :
       /\ vendor_pc' = vendor_set_report_read(World, len, report_data)
       /\ Record(World, "vendor_set_report_cb",
                 IF len < 2 THEN -1 ELSE report_data)
  /\ UNCHANGED activity_state

\* the handler makes the call it selected and returns (the byte was put on
\* record when it was read)
VendorCall ==
  /\ vendor_pc # "idle"
  /\ vendor_pc' = "idle"
  /\ Record(vendor_set_report_call(World, vendor_pc),
            "vendor_set_report_cb", -1)
  /\ UNCHANGED activity_state

NextConc ==
  \/ HidIndicatorsChanged
  \/ VendorRead
  \/ VendorCall
  \/ ActivateWork
  \/ DeactivateWork
  \/ KeymapLayerActivate
  \/ KeymapLayerDeactivate
  \/ ActivityChange
  \/ Tick

SpecConc == Init /\ [][NextConc]_vars

\* layer-state-changed events only, over every pair of layer lists
NextMode ==
  \/ KeymapLayerActivate
  \/ KeymapLayerDeactivate

SpecMode == InitMode /\ [][NextMode]_vars

\* ================================================================ claims
\* vocabulary of the claims
ToggleScroll == "toggle_scroll"
CycleDpi == "cycle_dpi"
\* the commands among the external calls of the last step, in order
Commands == SelectSeq(calls, LAMBDA c : c \in {ToggleScroll, CycleDpi})
ScrollSet == {config.scroll_layers[i] : i \in DOMAIN config.scroll_layers}
SnipeSet == {config.snipe_layers[i] : i \in DOMAIN config.snipe_layers}
\* the classifier's result for the layers active in this state
ClassifiedMode == get_input_mode_for_current_layer(World)
ActivatePending ==
  k_work_delayable_is_pending(data.activate_automouse_layer_delayed)
DeactivatePending ==
  k_work_delayable_is_pending(data.deactivate_automouse_layer_delayed)
AutomouseLayerActive == config.automouse_layer \in layer_state
HostActive == activity_state = ZMK_ACTIVITY_ACTIVE
\* the last step handled an indicator event with the scroll-lock bit set
IndicatorOn ==
  /\ handler \in {"hid_indicators_listener_cb", "vendor_set_report_cb"}
  /\ arg >= 0
  /\ BitAnd(arg, LED_SLCK) # 0
LayerEvent == handler = "layer_state_listener_cb"

\* C1: the wake-delayed activation and the debounced deactivation are never
\* both pending.  Violated: IndicatorOn while idle schedules the activation,
\* the host wakes, a second IndicatorOn activates at once, IndicatorOff then
\* schedules the deactivation while the activation is still pending.
C1_AtMostOnePending == ~(ActivatePending /\ DeactivatePending)

\* C2 as claimed: Scroll -> Snipe emits CycleDpi then ToggleScroll, and
\* Snipe -> Scroll emits ToggleScroll then CycleDpi.
C2_Original ==
  [][/\ (data.curr_mode = SCROLL /\ data'.curr_mode = SNIPE)
          => Commands' = <<CycleDpi, ToggleScroll>>
     /\ (data.curr_mode = SNIPE /\ data'.curr_mode = SCROLL)
          => Commands' = <<ToggleScroll, CycleDpi>>]_vars

\* C2 amended: on a layer-change event, Scroll -> Snipe emits exactly
\* ToggleScroll then CycleDpi, and Snipe -> Scroll emits exactly CycleDpi
\* then ToggleScroll (the old mode is left before the new one is entered).
C2_DiagonalOrder ==
  [][/\ (data.curr_mode = SCROLL /\ data'.curr_mode = SNIPE)
          => Commands' = <<ToggleScroll, CycleDpi>>
     /\ (data.curr_mode = SNIPE /\ data'.curr_mode = SCROLL)
          => Commands' = <<CycleDpi, ToggleScroll>>]_vars

\* a layer-change event has just moved the mode from Snipe to Scroll
C2_Witness ==
  /\ LayerEvent
  /\ data.curr_mode = SCROLL
  /\ calls = <<CycleDpi, ToggleScroll>>

\* C3 as claimed, for every scroll layer S and snipe layer P: from Move with
\* neither active, activating S emits one ToggleScroll and gives Scroll;
\* then activating P emits nothing and leaves Scroll; then deactivating S
\* emits the single command CycleDpi and gives Snipe.  The state before each
\* step is the one the scenario has reached: of the configured layers none,
\* then S, then S and P are active.
C3_Original ==
  [][\A S \in ScrollSet, P \in SnipeSet :
       /\ ( /\ data.curr_mode = MOVE
            /\ S \notin layer_state /\ P \notin layer_state
            /\ layer_state' = layer_state \cup {S} )
          => (Commands' = <<ToggleScroll>> /\ data'.curr_mode = SCROLL)
       /\ ( /\ data.curr_mode = SCROLL
            /\ layer_state \cap (ScrollSet \cup SnipeSet) = {S}
            /\ P # S
            /\ layer_state' = layer_state \cup {P} )
          => (Commands' = <<>> /\ data'.curr_mode = SCROLL)
       /\ ( /\ data.curr_mode = SCROLL
            /\ layer_state \cap (ScrollSet \cup SnipeSet) = {S, P}
            /\ P # S
            /\ layer_state' = layer_state \ {S} )
          => (Commands' = <<CycleDpi>> /\ data'.curr_mode = SNIPE)]_vars

\* C3 amended, for every scroll layer S and every snipe layer P that is not
\* also a scroll layer: the first two steps as claimed; deactivating S (P
\* still active) emits exactly two commands, ToggleScroll then CycleDpi, and
\* sets current_mode = Snipe.
C3_Scenario ==
  [][\A S \in ScrollSet, P \in SnipeSet \ ScrollSet :
       /\ ( /\ data.curr_mode = MOVE
            /\ S \notin layer_state /\ P \notin layer_state
            /\ layer_state' = layer_state \cup {S} )
          => (Commands' = <<ToggleScroll>> /\ data'.curr_mode = SCROLL)
       /\ ( /\ data.curr_mode = SCROLL
            /\ layer_state \cap (ScrollSet \cup SnipeSet) = {S}
            /\ layer_state' = layer_state \cup {P} )
          => (Commands' = <<>> /\ data'.curr_mode = SCROLL)
       /\ ( /\ data.curr_mode = SCROLL
            /\ layer_state \cap (ScrollSet \cup SnipeSet) = {S, P}
            /\ layer_state' = layer_state \ {S} )
          => (Commands' = <<ToggleScroll, CycleDpi>>
              /\ data'.curr_mode = SNIPE)]_vars

\* the scenario's last step has run: scroll layer S (the event's layer) was
\* deactivated and snipe layer P is the only configured layer left active
C3_Witness ==
  /\ LayerEvent
  /\ arg \in ScrollSet
  /\ arg \notin layer_state
  /\ \E P \in SnipeSet \ ScrollSet :
       layer_state \cap (ScrollSet \cup SnipeSet) = {P}
  /\ data.curr_mode = SNIPE
  /\ calls = <<ToggleScroll, CycleDpi>>

\* C4: with the peripheral as two toggle bits, both off at start, in every
\* state (so after every layer-change event, raised by a key press or by the
\* automouse controller) scroll-on holds exactly in Scroll, snipe-DPI-on
\* exactly in Snipe, and current_mode is the classifier's result for the
\* active layers.
C4_PeripheralTracksMode ==
  /\ scroll_on <=> (data.curr_mode = SCROLL)
  /\ snipe_on <=> (data.curr_mode = SNIPE)
  /\ data.curr_mode = ClassifiedMode

\* the automouse controller activated a scroll layer while a snipe layer was
\* active: both toggles were flipped inside the indicator handler
C4_Witness ==
  /\ IndicatorOn
  /\ calls = <<"zmk_keymap_layer_activate", CycleDpi, ToggleScroll>>
  /\ scroll_on /\ ~snipe_on
  /\ data.curr_mode = SCROLL

\* C5: the classifier returns Scroll if some configured scroll layer is
\* active, otherwise Snipe if some configured snipe layer is active,
\* otherwise Move; the mode the handler stored is that result.
C5_Classifier ==
  /\ ClassifiedMode =
       IF ScrollSet \cap layer_state # {} THEN SCROLL
       ELSE IF SnipeSet \cap layer_state # {} THEN SNIPE
       ELSE MOVE
  /\ data.curr_mode = ClassifiedMode

\* a snipe-only layer and a scroll layer are both active, the first entry of
\* scroll_layers is not, and the classifier answered Scroll
C5_Witness ==
  /\ LayerEvent
  /\ (SnipeSet \ ScrollSet) \cap layer_state # {}
  /\ ScrollSet \cap layer_state # {}
  /\ config.scroll_layers[1] \notin layer_state
  /\ ClassifiedMode = SCROLL
  /\ data.curr_mode = SCROLL

\* C6: a layer-change event that takes the classified mode from Move to
\* Scroll or from Scroll to Move emits exactly one ToggleScroll, from Move to
\* Snipe or from Snipe to Move exactly one CycleDpi, and current_mode is the
\* new mode afterwards.
C6_MoveTransitions ==
  [][/\ (data.curr_mode = MOVE /\ ClassifiedMode' = SCROLL)
          => (Commands' = <<ToggleScroll>> /\ data'.curr_mode = SCROLL)
     /\ (data.curr_mode = SCROLL /\ ClassifiedMode' = MOVE)
          => (Commands' = <<ToggleScroll>> /\ data'.curr_mode = MOVE)
     /\ (data.curr_mode = MOVE /\ ClassifiedMode' = SNIPE)
          => (Commands' = <<CycleDpi>> /\ data'.curr_mode = SNIPE)
     /\ (data.curr_mode = SNIPE /\ ClassifiedMode' = MOVE)
          => (Commands' = <<CycleDpi>> /\ data'.curr_mode = MOVE)]_vars

\* a layer-change event has just taken the mode from Snipe back to Move
C6_Witness ==
  /\ LayerEvent
  /\ data.curr_mode = MOVE
  /\ ClassifiedMode = MOVE
  /\ calls = <<CycleDpi>>

\* C7: a layer-change event whose classified mode equals current_mode emits
\* no command and leaves current_mode, automouse_enabled and both work items
\* unchanged; inside any other handler, a layer change that keeps the mode
\* emits no command and leaves current_mode unchanged.
C7_SameModeNoop ==
  [][(ClassifiedMode' = data.curr_mode) =>
       /\ Commands' = <<>>
       /\ data'.curr_mode = data.curr_mode
       /\ scroll_on' = scroll_on /\ snipe_on' = snipe_on
       /\ LayerEvent' => (calls' = <<>> /\ data' = data)]_vars

\* a second layer of the current mode's kind was toggled while the automouse
\* controller was active with a deactivation pending: nothing was emitted
C7_Witness ==
  /\ LayerEvent
  /\ calls = <<>>
  /\ data.curr_mode = SNIPE
  /\ arg # config.automouse_layer
  /\ data.automouse_enabled
  /\ DeactivatePending

\* name is among the external calls of the last step
Called(name) == \E i \in DOMAIN calls : calls[i] = name

\* C8 as claimed: with automouse_enabled false and the host active, whether
\* or not the keymap already reports the automouse layer active, an
\* IndicatorOn event activates the layer and sets automouse_enabled in the
\* same step, and schedules no delayed activation.
C8_Original ==
  [][(~data.automouse_enabled /\ HostActive /\ IndicatorOn') =>
       /\ Called("zmk_keymap_layer_activate")'
       /\ AutomouseLayerActive'
       /\ data'.automouse_enabled
       /\ ~Called("k_work_schedule")'
       /\ data'.activate_automouse_layer_delayed =
            data.activate_automouse_layer_delayed]_vars

\* C8 amended: with automouse_enabled false, the host active and the keymap
\* not reporting the automouse layer active, an IndicatorOn event activates
\* the layer and sets automouse_enabled in the same step, and schedules no
\* delayed activation.
C8_ImmediateActivation ==
  [][(/\ ~data.automouse_enabled
      /\ HostActive
      /\ ~AutomouseLayerActive
      /\ IndicatorOn') =>
       /\ Called("zmk_keymap_layer_activate")'
       /\ AutomouseLayerActive'
       /\ data'.automouse_enabled
       /\ ~Called("k_work_schedule")'
       /\ data'.activate_automouse_layer_delayed =
            data.activate_automouse_layer_delayed]_vars

\* an IndicatorOn event with the host active has just activated the layer
\* at once, with no activation work pending
C8_Witness ==
  /\ IndicatorOn
  /\ HostActive
  /\ calls # <<>>
  /\ calls[1] = "zmk_keymap_layer_activate"
  /\ AutomouseLayerActive
  /\ data.automouse_enabled
  /\ ~ActivatePending

\* C9: with the host idle, automouse_enabled false and the layer not active,
\* an IndicatorOn event issues exactly one synthetic motion event and leaves
\* the delayed activation pending without activating the layer or setting
\* automouse_enabled; the one work item is all that is ever pending, so once
\* it has run no activation remains pending, however many IndicatorOn
\* events arrived meanwhile.
C9_IdleSchedulesOnce ==
  [][/\ (/\ ~HostActive
         /\ ~data.automouse_enabled
         /\ ~AutomouseLayerActive
         /\ IndicatorOn') =>
          /\ calls' = <<"input_report_rel", "k_work_schedule">>
          /\ ActivatePending'
          /\ layer_state' = layer_state
          /\ ~data'.automouse_enabled
     /\ (handler' = "activate_automouse_layer_work") => ~ActivatePending']_vars

\* a repeated IndicatorOn arrived with the host still idle while the
\* activation scheduled earlier was already due
C9_Witness ==
  /\ IndicatorOn
  /\ ~HostActive
  /\ calls = <<"input_report_rel", "k_work_schedule">>
  /\ data.activate_automouse_layer_delayed = 0
  /\ ~data.automouse_enabled
  /\ ~AutomouseLayerActive

\* C10: while the delayed activation is pending, automouse_enabled is false
\* and no step of the controller has activated the layer; the step in which
\* the work item runs activates the layer and sets automouse_enabled.
\* Violated: the host wakes and a second IndicatorOn arrives before the
\* work item runs (the pending activation is not looked at, as in C1).
C10_NoActivationBeforeExpiry ==
  [][/\ ActivatePending' =>
          (~data'.automouse_enabled /\ ~Called("zmk_keymap_layer_activate")')
     /\ (handler' = "activate_automouse_layer_work") =>
          (AutomouseLayerActive' /\ data'.automouse_enabled)]_vars

\* the last step handled an indicator event with the scroll-lock bit clear
IndicatorOff ==
  /\ IsIndicatorEvent(handler, arg)
  /\ BitAnd(arg, LED_SLCK) = 0

\* C11: an IndicatorOff event while automouse_enabled makes exactly the call
\* k_work_reschedule and leaves the deactivation pending a full timeout
\* away, whether or not one was already counting down; the deactivation runs
\* only when a full timeout has passed since the latest such event.
C11_DeactivationDebounce ==
  [][/\ (data.automouse_enabled /\ IndicatorOff') =>
          /\ calls' = <<"k_work_reschedule">>
          /\ data'.deactivate_automouse_layer_delayed =
               config.automouse_layer_timeout_ms
          /\ since_off' = 0
     /\ (handler' = "deactivate_automouse_layer") =>
          since_off = config.automouse_layer_timeout_ms]_vars

\* an IndicatorOff event has just armed a deactivation that is not yet due
C11_Witness ==
  /\ IndicatorOff
  /\ calls = <<"k_work_reschedule">>
  /\ config.automouse_layer_timeout_ms > 0
  /\ data.deactivate_automouse_layer_delayed =
       config.automouse_layer_timeout_ms
  /\ since_off = 0
  /\ data.automouse_enabled

\* C12: an IndicatorOn event while a deactivation is pending makes exactly
\* the call k_work_cancel_delayable (no layer activation, no motion event,
\* no k_work_schedule), leaves automouse_enabled true and the activation
\* work item as it was; the deactivation runs only if it is pending, and it
\* becomes pending again only by a later IndicatorOff.
C12_OnCancelsDeactivation ==
  [][/\ (DeactivatePending /\ IndicatorOn') =>
          /\ calls' = <<"k_work_cancel_delayable">>
          /\ ~DeactivatePending'
          /\ data'.automouse_enabled
          /\ data'.activate_automouse_layer_delayed =
               data.activate_automouse_layer_delayed
          /\ layer_state' = layer_state
     /\ (handler' = "deactivate_automouse_layer") => DeactivatePending
     /\ (~DeactivatePending /\ DeactivatePending') =>
          (IndicatorOff' /\ Called("k_work_reschedule")')]_vars

\* an IndicatorOn event has just cancelled the pending deactivation
C12_Witness ==
  /\ IndicatorOn
  /\ calls = <<"k_work_cancel_delayable">>
  /\ data.automouse_enabled
  /\ ~DeactivatePending

\* C14: an IndicatorOff event while automouse_enabled is false makes no
\* call and changes neither data (mode, flag, both work items) nor the
\* layers, also when the wake-delayed activation is pending.
C14_OffWhileInactiveNoop ==
  [][(~data.automouse_enabled /\ IndicatorOff') =>
       /\ calls' = <<>>
       /\ data' = data
       /\ layer_state' = layer_state]_vars

\* an IndicatorOff event arrived while the wake-delayed activation was
\* pending and did nothing
C14_Witness ==
  /\ IndicatorOff
  /\ ActivatePending
  /\ ~data.automouse_enabled
  /\ ~DeactivatePending
  /\ calls = <<>>

\* C15: in every InterfaceState, with any layers active and any host state,
\* and for every payload byte, the indicator-changed handler and the
\* feature-report handler (given a report of valid length) leave the same
\* state and make the same external calls in the same order.
C15_HandlersAgree ==
  \A b \in IndicatorValues :
    hid_indicators_listener_cb(World, b) = vendor_set_report_cb(World, 2, b)

\* the feature-report handler has cancelled a deactivation that was pending
\* although automouse_enabled was false, a state only InitAny supplies
C15_Witness ==
  /\ handler = "vendor_set_report_cb"
  /\ IndicatorOn
  /\ calls = <<"k_work_cancel_delayable">>
  /\ ~data.automouse_enabled
  /\ AutomouseLayerActive

\* C16: when the deactivation work item runs, zmk_keymap_layer_deactivate is
\* called exactly if the keymap reports the automouse layer active at that
\* moment, the layer is inactive and automouse_enabled false afterwards, and
\* the activation work item is left as it was.
C16_DeactivationExpiry ==
  [][(handler' = "deactivate_automouse_layer") =>
       /\ Called("zmk_keymap_layer_deactivate")' <=> AutomouseLayerActive
       /\ ~AutomouseLayerActive'
       /\ ~data'.automouse_enabled
       /\ data'.activate_automouse_layer_delayed =
            data.activate_automouse_layer_delayed]_vars

\* the deactivation ran while the layer had already been deactivated by
\* other means and an activation was pending: no call, flag cleared
C16_Witness ==
  /\ handler = "deactivate_automouse_layer"
  /\ calls = <<>>
  /\ ActivatePending
  /\ ~data.automouse_enabled

\* C17: with every handler and work item atomic, a pending deactivation
\* implies automouse_enabled.
C17_PendingDeactivationImpliesEnabled ==
  DeactivatePending => data.automouse_enabled

\* a deactivation is counting down, with the flag set, after time has passed
C17_Witness ==
  /\ handler = "tick"
  /\ DeactivatePending
  /\ data.deactivate_automouse_layer_delayed = 0
  /\ data.automouse_enabled

DeactivatedElsewhere ==
  /\ handler' = "layer_state_listener_cb"
  /\ AutomouseLayerActive
  /\ ~AutomouseLayerActive'

C19_OffSettlesInactive ==
  (last_indicator = "off" /\ ~ActivatePending /\ ~DeactivatePending)
    => (~data.automouse_enabled /\ ~AutomouseLayerActive)

\* C20: with every handler and work item atomic and no other party toggling
\* the automouse layer, whenever the most recently handled indicator event
\* was IndicatorOn, the automouse layer is active or the wake-delay work
\* item is pending, and the deactivation work item is not pending.
C20_OnMeansActiveOrPending ==
  last_indicator = "on" =>
    /\ AutomouseLayerActive \/ ActivatePending
    /\ ~DeactivatePending

\* after IndicatorOn received while the host was idle, the wake-delay work
\* item is pending with the layer still inactive
C20_Witness ==
  /\ last_indicator = "on"
  /\ ActivatePending
  /\ ~AutomouseLayerActive
  /\ ~HostActive

\* C18: the invariant of C17 also holds when the feature-report handler
\* runs in a context of its own, its tests and the call they select being
\* separate steps between which the other callbacks may run: whenever
\* automouse_enabled is false, no deactivation is pending.
C18_DisabledMeansNoDeactivationInterleaved ==
  ~data.automouse_enabled => ~DeactivatePending

====
